---- MODULE Spec2Model ----
(***************************************************************************)
(* ChemPristine: the Upload page (CSV ingestion, retention, persistence)   *)
(* and the store tables it writes (public.uploads, public.equipment_data). *)
(*                                                                         *)
(* A session is one mounted browser tab of the application.  Every await   *)
(* of handleUpload is one step: the step is the moment the store executes  *)
(* the call and the handler resumes with its response, runs the            *)
(* synchronous code up to the next await and issues the next call.         *)
(* A store call that fails resolves with {data: null, error}; it does not  *)
(* reject (the client is used without throwOnError).                       *)
(***************************************************************************)
EXTENDS Integers, Sequences, FiniteSets, TLC

\* ------------------------------------------------------------------ bounds
Sessions == {"s1", "s2", "s3"}
Users == {"u1"}
MaxClock == 8          \* uploads ever inserted (ids and created_at stay below it)
MaxHeaders == 2        \* columns of a generated file
MaxRows == 3           \* records of a generated file

\* ----------------------------------------------------------- program values
RetentionCap == 5      \* existingUploads.length >= 5
RetentionKeep == 4     \* existingUploads.slice(4)
NoUser == "none"       \* useAuth().user === null
NoFile == <<>>         \* useState<File | null>(null); a selected file f is <<f>>
NoError == "null"      \* useState<string | null>(null)
DecimalMegabytes == 10 * 1000 * 1000   \* 10 MB counted in powers of ten
MaxFileSize == 10485760  \* 10 * 1024 * 1024
NoUpload == 0          \* uploadData === null
Outcomes == {"ok", "error"}
NoRun == [user |-> NoUser, file |-> NoFile, parsedData |-> <<>>]
NoRead == [null |-> TRUE, rows |-> <<>>]   \* existingUploads === null

VARIABLES
    uploads,          \* table public.uploads
    equipment_data,   \* table public.equipment_data
    clock,            \* the store's now() / id generator
    user,             \* per session: useAuth().user
    location,         \* per session: the route that is mounted
    file,             \* per session: useState file
    parsedData,       \* per session: useState parsedData
    parsing,          \* per session: useState parsing
    uploading,        \* per session: useState uploading
    error,            \* per session: useState error
    pc,               \* per session: the await handleUpload is suspended at
    run,              \* per session: the values the running handleUpload closed over
    existingUploads,  \* per session: handleUpload's local existingUploads
    uploadData,       \* per session: handleUpload's local uploadData (its id)
    calls,            \* per session: the store calls the latest run has issued
    toasts,           \* per session: the notifications the latest run has shown
    navigated,        \* per session: the upload id the latest run navigated with
    deleting,         \* Settings page: the await handleDeleteAllData is suspended at
    vizUploads,       \* Visualization page: useState uploads (loaded, and their ids)
    selectedUpload,   \* Visualization page: useState selectedUpload
    vizData,          \* Visualization page: useState data
    fetching,         \* Visualization page: the fetchData calls in flight
    isSignUp,         \* Auth page: useState isSignUp
    formData,         \* Auth page: useState formData
    errors,           \* Auth page: useState errors
    loading,          \* Auth page: useState loading
    authPc,           \* Auth page: the await handleSubmit is suspended at
    authCalls,        \* Auth page: the signUp and signIn calls issued so far
    authToasts        \* Auth page: the notifications the latest submit has shown

storeVars == <<uploads, equipment_data, clock>>
pageVars == <<file, parsedData, parsing, error>>
runVars == <<pc, run, existingUploads, uploadData, calls, toasts, navigated, uploading>>
vizVars == <<vizUploads, selectedUpload, vizData, fetching>>
authVars == <<isSignUp, formData, errors, loading, authPc, authCalls, authToasts>>
otherVars == <<deleting, vizVars, authVars>>
vars == <<uploads, equipment_data, clock, user, location, file, parsedData, parsing,
          uploading, error, pc, run, existingUploads, uploadData, calls, toasts,
          navigated, otherVars>>

\* ------------------------------------------------------------------- store

\* The ids of a set of upload records.
Ids(us) == {u.id : u \in us}

\* Rows of public.uploads a user may see (RLS policy and .eq('user_id', user.id)).
UserUploads(u) == {r \in uploads : r.user_id = u}

\* A set of upload records as a sequence, newest created_at first.
RECURSIVE OrderDesc(_)
OrderDesc(us) ==
    IF us = {} THEN <<>>
    ELSE LET newest == CHOOSE r \in us : \A o \in us : o.created_at <= r.created_at
         IN  <<newest.id>> \o OrderDesc(us \ {newest})

\* Array.prototype.reverse
Reverse(seq) == [i \in 1..Len(seq) |-> seq[Len(seq) + 1 - i]]

\* Mutant: the retention read ordered by created_at ascending.
SelectUploadsAscending(u) == Reverse(OrderDesc(UserUploads(u)))

\* supabase.from('uploads').select('id').eq('user_id', u).order('created_at', desc)
SelectUploads(u) == OrderDesc(UserUploads(u))

\* The set of elements of a sequence.
Range(seq) == {seq[i] : i \in 1..Len(seq)}

\* Array.prototype.slice(n): the elements after the first n.
Slice(seq, n) == IF Len(seq) <= n THEN <<>> ELSE SubSeq(seq, n + 1, Len(seq))

\* Mutant: the eviction only when more than the cap was read.
NeedsEvictionAbove(existing) == ~existing.null /\ Len(existing.rows) > RetentionCap

\* if (existingUploads && existingUploads.length >= 5)
NeedsEviction(existing) == ~existing.null /\ Len(existing.rows) >= RetentionCap

\* Mutant: one more upload evicted than the new upload needs.
ToDeleteFromThree(existing) == Range(Slice(existing.rows, RetentionKeep - 1))

\* toDelete = existingUploads.slice(4).map((u) => u.id)
ToDelete(existing) == Range(Slice(existing.rows, RetentionKeep))

\* supabase.from('uploads').delete().in('id', ids) as user u: the uploads left.
DeleteUploads(ids, u) == {r \in uploads : ~(r.id \in ids /\ r.user_id = u)}

\* ON DELETE CASCADE: the equipment rows left when only the uploads `left` remain.
Cascade(left) == {e \in equipment_data : e.upload_id \in Ids(left)}

\* equipmentRecords tagged with one fixed user in the place of the session's.
EquipmentRecordsOfFirstUser(uploadId, u, rows) ==
    {[upload_id |-> uploadId, user_id |-> "u1", seq |-> i, row |-> rows[i]] :
        i \in 1..Len(rows)}

\* equipmentRecords: one record per parsed row, tagged with the upload and the user.
EquipmentRecords(uploadId, u, rows) ==
    {[upload_id |-> uploadId, user_id |-> u, seq |-> i, row |-> rows[i]] :
        i \in 1..Len(rows)}

\* ----------------------------------------------------------------- strings

Uppers == "ABCDEFGHIJKLMNOPQRSTUVWXYZ"
Lowers == "abcdefghijklmnopqrstuvwxyz"
Digits == "0123456789"
WhiteSpace == {" ", "\t"}

Char(str, i) == SubSeq(str, i, i)
Drop(str, n) == SubSeq(str, n + 1, Len(str))

\* The position of a one-character string in an alphabet, 0 when it is not in it.
IndexIn(alphabet, c) ==
    IF \E i \in 1..Len(alphabet) : Char(alphabet, i) = c
    THEN CHOOSE i \in 1..Len(alphabet) : Char(alphabet, i) = c
    ELSE 0

LowerChar(c) == IF IndexIn(Uppers, c) > 0 THEN Char(Lowers, IndexIn(Uppers, c)) ELSE c

\* String.prototype.toLowerCase
RECURSIVE ToLowerCase(_)
ToLowerCase(str) ==
    IF str = "" THEN "" ELSE LowerChar(Char(str, 1)) \o ToLowerCase(Drop(str, 1))

\* String.prototype.includes
Includes(str, p) == \E i \in 0..(Len(str) - Len(p)) : SubSeq(str, i + 1, i + Len(p)) = p

\* String.prototype.endsWith
EndsWith(str, p) == Len(p) <= Len(str) /\ Drop(str, Len(str) - Len(p)) = p

StartsWith(str, p) == Len(p) <= Len(str) /\ SubSeq(str, 1, Len(p)) = p

RECURSIVE TrimStart(_)
TrimStart(str) ==
    IF str # "" /\ Char(str, 1) \in WhiteSpace THEN TrimStart(Drop(str, 1)) ELSE str

RECURSIVE TrimEnd(_)
TrimEnd(str) ==
    IF str # "" /\ Char(str, Len(str)) \in WhiteSpace
    THEN TrimEnd(SubSeq(str, 1, Len(str) - 1))
    ELSE str

\* String.prototype.trim
Trim(str) == TrimEnd(TrimStart(str))

\* ----------------------------------------------------------------- numbers
\* A number is num/den in lowest terms with den > 0; NaN is 0/0 and the infinities
\* are 1/0 and -1/0.

RECURSIVE Gcd(_, _)
Gcd(a, b) == IF b = 0 THEN a ELSE Gcd(b, a % b)

Abs(a) == IF a < 0 THEN -a ELSE a

RECURSIVE Pow10(_)
Pow10(n) == IF n <= 0 THEN 1 ELSE 10 * Pow10(n - 1)

NaN == [num |-> 0, den |-> 0]
Infinity(sign) == [num |-> sign, den |-> 0]

Number(n, d) ==
    LET g == Gcd(Abs(n), d) IN [num |-> n \div g, den |-> d \div g]

\* The length of the longest prefix of decimal digits.
RECURSIVE DigitsLen(_)
DigitsLen(str) ==
    IF str # "" /\ IndexIn(Digits, Char(str, 1)) > 0 THEN 1 + DigitsLen(Drop(str, 1)) ELSE 0

\* The value of a string of decimal digits (0 for the empty string).
RECURSIVE DigitsValue(_)
DigitsValue(str) ==
    IF str = "" THEN 0
    ELSE 10 * DigitsValue(SubSeq(str, 1, Len(str) - 1))
         + (IndexIn(Digits, Char(str, Len(str))) - 1)

\* The exponent part at the start of a string: e or E, an optional sign and at least
\* one digit; 0 when there is none.
ExponentOf(str) ==
    IF str = "" \/ Char(str, 1) \notin {"e", "E"} THEN 0
    ELSE LET t == Drop(str, 1)
             signed == t # "" /\ Char(t, 1) \in {"+", "-"}
             d == IF signed THEN Drop(t, 1) ELSE t
             n == DigitsLen(d)
             v == DigitsValue(SubSeq(d, 1, n))
         IN  IF n = 0 THEN 0 ELSE IF signed /\ Char(t, 1) = "-" THEN -v ELSE v

\* parseInt(str, 10): the longest prefix that is a signed string of digits.
ParseInt(str) ==
    LET t == TrimStart(str)
        signed == t # "" /\ Char(t, 1) \in {"+", "-"}
        u == IF signed THEN Drop(t, 1) ELSE t
        il == DigitsLen(u)
    IN  IF il = 0 THEN NaN
        ELSE Number((IF signed /\ Char(t, 1) = "-" THEN -1 ELSE 1)
                       * DigitsValue(SubSeq(u, 1, il)), 1)

\* parseFloat: leading white space is skipped, the longest prefix that is a decimal
\* literal is converted, and NaN is returned when there is none.
ParseFloat(str) ==
    LET t == TrimStart(str)
        signed == t # "" /\ Char(t, 1) \in {"+", "-"}
        sign == IF signed /\ Char(t, 1) = "-" THEN -1 ELSE 1
        u == IF signed THEN Drop(t, 1) ELSE t
        il == DigitsLen(u)
        afterInt == Drop(u, il)
        dot == afterInt # "" /\ Char(afterInt, 1) = "."
        fl == IF dot THEN DigitsLen(Drop(afterInt, 1)) ELSE 0
        frac == IF dot THEN SubSeq(afterInt, 2, fl + 1) ELSE ""
        rest == IF dot THEN Drop(afterInt, fl + 1) ELSE afterInt
        e == ExponentOf(rest)
        mantissa == DigitsValue(SubSeq(u, 1, il) \o frac)
    IN  IF StartsWith(u, "Infinity") THEN Infinity(sign)
        ELSE IF il = 0 /\ fl = 0 THEN NaN
        ELSE IF e >= fl THEN Number(sign * mantissa * Pow10(e - fl), 1)
        ELSE Number(sign * mantissa, Pow10(fl - e))

\* --------------------------------------------------------------- parseCSV
\* A raw record is a sequence of <<header, value>> pairs in the header order of the
\* file.  An optional value is a sequence of length 0 or 1.

Undefined == <<>>
Null == <<>>
Unknown == "Unknown"

NamePatterns == <<"equipment name", "name", "equipment">>
TypePatterns == <<"type", "equipment type">>
FlowPatterns == <<"flowrate", "flow rate", "flow">>
PressPatterns == <<"pressure", "press">>
TempPatterns == <<"temperature", "temp">>

\* Object.keys(row)
Keys(row) == [i \in 1..Len(row) |-> row[i][1]]

\* row[k], for a key of the row
Get(row, k) == row[CHOOSE i \in 1..Len(row) : row[i][1] = k][2]

\* patterns.some((p) => k.toLowerCase().includes(p.toLowerCase()))
SomePattern(k, patterns) ==
    \E i \in 1..Len(patterns) : Includes(ToLowerCase(k), ToLowerCase(patterns[i]))

\* keys.findLast(...) in the place of keys.find(...): the last matching key.
FindLastColumn(keys, patterns) ==
    LET hits == {i \in 1..Len(keys) : SomePattern(keys[i], patterns)}
    IN  IF hits = {} THEN <<>>
        ELSE <<keys[CHOOSE i \in hits : \A j \in hits : i >= j]>>

\* findColumn: keys.find(...) - the first key that some pattern matches, or undefined.
FindColumn(keys, patterns) ==
    LET hits == {i \in 1..Len(keys) : SomePattern(keys[i], patterns)}
    IN  IF hits = {} THEN Undefined
        ELSE <<keys[CHOOSE i \in hits : \A j \in hits : i <= j]>>

\* The truthiness of a findColumn result: undefined and "" are falsy.
Truthy(col) == col # Undefined /\ col[1] # ""

\* nameCol, typeCol, flowCol, pressCol, tempCol: the column of each canonical field.
Fields == {"name", "type", "flowrate", "pressure", "temperature"}
ColumnMapping(keys) ==
    [name |-> FindColumn(keys, NamePatterns),
     type |-> FindColumn(keys, TypePatterns),
     flowrate |-> FindColumn(keys, FlowPatterns),
     pressure |-> FindColumn(keys, PressPatterns),
     temperature |-> FindColumn(keys, TempPatterns)]

\* The synonym list findColumn is called with for each canonical field.
PatternsOf ==
    [name |-> NamePatterns, type |-> TypePatterns, flowrate |-> FlowPatterns,
     pressure |-> PressPatterns, temperature |-> TempPatterns]

\* ------------------------------------------------------------------- files

RowPump == << <<"Equipment Name", "Pump-1">>, <<"Type", "Centrifugal">>,
              <<"Flow Rate", "12.5">>, <<"Pressure", "3.2">>, <<"Temp", "80">> >>
RowValve == << <<"Name", " V2 ">>, <<"Type", "Valve">>, <<"Flow", "x">> >>
RowNote == << <<"Comment", "checked">> >>

FileOne == [name |-> "one.csv", size |-> 64, data |-> <<RowPump>>]
FileTwo == [name |-> "two.csv", size |-> 128, data |-> <<RowPump, RowValve>>]
FileNote == [name |-> "note.csv", size |-> 32, data |-> <<RowNote>>]
FileBig == [name |-> "big.csv", size |-> MaxFileSize + 1, data |-> <<RowPump>>]
FileTxt == [name |-> "one.txt", size |-> 64, data |-> <<RowPump>>]
Files == {FileOne, FileTwo, FileNote, FileBig, FileTxt}

\* The files offered on the page: the one-record file is one of exactly 10 MB.
FileEdge == [name |-> "edge.csv", size |-> 10 * 1024 * 1024, data |-> <<RowValve>>]
PageFiles == (Files \ {FileOne}) \cup {FileEdge}

\* Files of one record each, over every list of up to MaxHeaders distinct headers.
Headers == {"Equipment Name", "Name", "Equipment", "Equipment Type", "Type",
            "Flow Rate", "FLOW", "Pressure", "Temp", "Notes"}
HeaderLists ==
    UNION {{h \in [1..n -> Headers] : \A i, j \in 1..n : h[i] = h[j] => i = j} :
             n \in 1..MaxHeaders}
HeaderFile(h) ==
    [name |-> "h.csv", size |-> 16 * Len(h), data |-> <<[i \in 1..Len(h) |-> <<h[i], "7">>]>>]
HeaderFiles == {HeaderFile(h) : h \in HeaderLists}

\* Files of one record over a few header lists, with every choice of cell texts:
\* empty, blank, padded, zero, negative, decimal, non-numeric, and the sentinel.
Values == {"", " ", " V2 ", "0", "-3", "12.5", "abc", "Unknown"}
ValueHeaderLists ==
    {<<"Name", "Type", "Flow">>, <<"Type", "Pressure">>, <<"Name", "Temp">>,
     <<"Notes", "Flow">>}
ValueRows ==
    UNION {{[i \in 1..Len(h) |-> <<h[i], v[i]>>] : v \in [1..Len(h) -> Values]} :
             h \in ValueHeaderLists}
ValueFiles == {[name |-> "v.csv", size |-> 16, data |-> <<r>>] : r \in ValueRows}

\* Files of up to MaxRows records, each one of a few sample records.
RowMixer == << <<"Type", "Mixer">>, <<"Flow", "10">>, <<"Pressure", "-3">> >>
RowTank == << <<"Name", "T1">>, <<"Type", "Valve">>, <<"Flow", "20">> >>
RowNamed == << <<"Name", "N1">>, <<"Temp", "0">> >>
SampleRows == {RowPump, RowValve, RowNote, RowMixer, RowTank, RowNamed}
SampleFiles ==
    {[name |-> "rows.csv", size |-> 16 * Len(d), data |-> d] :
        d \in UNION {[1..n -> SampleRows] : n \in 1..MaxRows}}

\* The column mapping of every header list of the files, computed once per list: the
\* records of one file have the same keys.
KeyLists == HeaderLists \cup ValueHeaderLists \cup {Keys(r) : r \in SampleRows}
Columns == [keys \in KeyLists |-> ColumnMapping(keys)] @@ <<>>

\* The cell texts of the files, with String.prototype.trim and parseFloat computed
\* once per text (@@ <<>> turns a function into an explicit table).
Cells ==
    UNION {{r[i][2] : i \in 1..Len(r)} : r \in SampleRows \cup {RowPump, RowValve, RowNote}}
      \cup Values \cup {"7"}
Trimmed == [v \in Cells |-> Trim(v)] @@ <<>>
Parsed == [v \in Cells |-> ParseFloat(v)] @@ <<>>

\* col ? row[col] || 'Unknown' : 'Unknown', without the trim.
TextFieldUntrimmed(row, col) ==
    IF col # <<>> /\ col[1] # "" /\ Get(row, col[1]) # "" THEN Get(row, col[1])
    ELSE "Unknown"

\* col ? row[col]?.trim() || 'Unknown' : 'Unknown'
TextField(row, col) ==
    IF Truthy(col) /\ Trimmed[Get(row, col[1])] # "" THEN Trimmed[Get(row, col[1])]
    ELSE Unknown

\* col ? parseFloat(row[col]) : null, without the || null.
NumberFieldUnguarded(row, col) ==
    IF col # <<>> /\ col[1] # "" THEN <<ParseFloat(Get(row, col[1]))>> ELSE <<>>

\* col ? parseFloat(row[col]) || null : null   (0 and NaN are falsy)
NumberField(row, col) ==
    IF Truthy(col) /\ Parsed[Get(row, col[1])].num # 0
    THEN <<Parsed[Get(row, col[1])]>>
    ELSE Null

\* The callback of data.map: one raw record to one ParsedRow.
MapRow(row) ==
    LET col == Columns[Keys(row)]
    IN  [equipment_name |-> TextField(row, col.name),
         equipment_type |-> TextField(row, col.type),
         flowrate |-> NumberField(row, col.flowrate),
         pressure |-> NumberField(row, col.pressure),
         temperature |-> NumberField(row, col.temperature)]

\* Predicates of .filter that ask for both fields, and for the name alone.
RetainedBoth(r) == r.equipment_name # "Unknown" /\ r.equipment_type # "Unknown"
RetainedByName(r) == r.equipment_name # "Unknown"

\* The predicate of .filter
Retained(r) == r.equipment_name # Unknown \/ r.equipment_type # Unknown

\* Array.prototype.filter
RECURSIVE Filter(_)
Filter(rows) ==
    IF rows = <<>> THEN <<>>
    ELSE (IF Retained(Head(rows)) THEN <<Head(rows)>> ELSE <<>>) \o Filter(Tail(rows))

\* mapped = data.map(...).filter(...)
Mapped(data) == Filter([i \in 1..Len(data) |-> MapRow(data[i])])

\* results.data of Papa.parse for each file, through the mapping of parseCSV.
ParseResult ==
    [f \in Files \cup PageFiles \cup HeaderFiles \cup ValueFiles \cup SampleFiles |->
        Mapped(f.data)]
        @@ <<>>

\* ----------------------------------------------------------------- summary

Zero == [num |-> 0, den |-> 1]

\* a + b of two numbers.
Add(a, b) ==
    IF a.den # 0 /\ b.den # 0 THEN Number(a.num * b.den + b.num * a.den, a.den * b.den)
    ELSE IF a = NaN \/ b = NaN THEN NaN
    ELSE IF a.den # 0 THEN b
    ELSE IF b.den # 0 \/ a.num = b.num THEN a
    ELSE NaN

\* a / n for an array length n > 0.
DivideBy(a, n) == IF a.den = 0 THEN a ELSE Number(a.num, a.den * n)

\* Every row's value of field a, null counted as 0.
RECURSIVE NullAsZero(_, _)
NullAsZero(rows, a) ==
    IF rows = <<>> THEN <<>>
    ELSE <<IF Head(rows)[a] = <<>> THEN Zero ELSE Head(rows)[a][1]>>
         \o NullAsZero(Tail(rows), a)

\* parsedData.filter((d) => d[a] !== null).map((d) => d[a]!)
RECURSIVE NonNull(_, _)
NonNull(rows, a) ==
    IF rows = <<>> THEN <<>>
    ELSE (IF Head(rows)[a] # Null THEN <<Head(rows)[a][1]>> ELSE <<>>)
         \o NonNull(Tail(rows), a)

\* arr.reduce((a, b) => a + b, 0)
RECURSIVE Reduce(_)
Reduce(arr) ==
    IF arr = <<>> THEN Zero
    ELSE Add(Reduce(SubSeq(arr, 1, Len(arr) - 1)), arr[Len(arr)])

\* avg
Avg(arr) == IF Len(arr) > 0 THEN DivideBy(Reduce(arr), Len(arr)) ELSE Zero

\* Every type of the rows counted once.
TypesOnce(rows) == [t \in {rows[i].equipment_type : i \in 1..Len(rows)} |-> 1]

\* typeDistribution after parsedData.forEach: each row adds 1 to the entry of its type,
\* which starts from 0.
RECURSIVE TypeDistribution(_)
TypeDistribution(rows) ==
    IF rows = <<>> THEN <<>>
    ELSE LET before == TypeDistribution(SubSeq(rows, 1, Len(rows) - 1))
             type == rows[Len(rows)].equipment_type
         IN  [t \in DOMAIN before \cup {type} |->
                 IF t = type THEN (IF t \in DOMAIN before THEN before[t] ELSE 0) + 1
                 ELSE before[t]]

\* summary
Summary(rows) ==
    [avgFlowrate |-> Avg(NonNull(rows, "flowrate")),
     avgPressure |-> Avg(NonNull(rows, "pressure")),
     avgTemperature |-> Avg(NonNull(rows, "temperature")),
     typeDistribution |-> TypeDistribution(rows)]

\* The upload record with the number of the file's data rows as record_count.
NewUploadRawCount(u, f, rows) ==
    [id |-> clock + 1, user_id |-> u, filename |-> f.name,
     record_count |-> Len(f.data), summary |-> Summary(rows), created_at |-> clock + 1]

\* The record the store creates for an insert into public.uploads of file f's upload:
\* gen_random_uuid() and now(), both taken from the clock.
NewUpload(u, f, rows) ==
    [id |-> clock + 1, user_id |-> u, filename |-> f.name,
     record_count |-> Len(rows), summary |-> Summary(rows), created_at |-> clock + 1]

\* ------------------------------------------------------------- Upload page

\* The Upload route is mounted again after a navigation: every useState starts from
\* its initial value and nothing of the previous instance's runs is left.
OpenUploadPage(s) ==
    /\ location[s] # "upload"
    /\ pc[s] = "idle"
    /\ location' = [location EXCEPT ![s] = "upload"]
    /\ file' = [file EXCEPT ![s] = NoFile]
    /\ parsedData' = [parsedData EXCEPT ![s] = <<>>]
    /\ parsing' = [parsing EXCEPT ![s] = FALSE]
    /\ uploading' = [uploading EXCEPT ![s] = FALSE]
    /\ error' = [error EXCEPT ![s] = NoError]
    /\ run' = [run EXCEPT ![s] = NoRun]
    /\ existingUploads' = [existingUploads EXCEPT ![s] = NoRead]
    /\ uploadData' = [uploadData EXCEPT ![s] = NoUpload]
    /\ calls' = [calls EXCEPT ![s] = <<>>]
    /\ toasts' = [toasts EXCEPT ![s] = {}]
    /\ navigated' = [navigated EXCEPT ![s] = NoUpload]
    /\ UNCHANGED <<storeVars, user, otherVars, pc>>

\* handleFile, from the drop zone or the file input (rendered while no file is set);
\* for an accepted file parseCSV starts: setParsing(true), setError(null).
HandleFile(s, f) ==
    /\ location[s] = "upload"
    /\ file[s] = NoFile
    /\ IF ~EndsWith(f.name, ".csv")
       THEN /\ error' = [error EXCEPT ![s] = "upload.invalidFormat"]
            /\ UNCHANGED <<file, parsing>>
       ELSE IF f.size > MaxFileSize
       THEN /\ error' = [error EXCEPT ![s] = "upload.fileTooLarge"]
            /\ UNCHANGED <<file, parsing>>
       ELSE /\ file' = [file EXCEPT ![s] = <<f>>]
            /\ parsing' = [parsing EXCEPT ![s] = TRUE]
            /\ error' = [error EXCEPT ![s] = NoError]
    /\ UNCHANGED <<storeVars, user, otherVars, location, parsedData, runVars>>

\* A complete callback that sets the preview and never the error.
ParseCompleteSilent(s) ==
    /\ location[s] = "upload"
    /\ parsing[s]
    /\ file[s] # <<>>
    /\ parsedData' = [parsedData EXCEPT ![s] = ParseResult[file[s][1]]]
    /\ parsing' = [parsing EXCEPT ![s] = FALSE]
    /\ UNCHANGED <<storeVars, user, otherVars, location, file, error, runVars>>

\* Papa.parse's complete callback for the file being parsed.
ParseComplete(s) ==
    /\ location[s] = "upload"
    /\ parsing[s]
    /\ file[s] # NoFile
    /\ LET mapped == ParseResult[file[s][1]]
       IN  IF Len(mapped) = 0
           THEN /\ error' = [error EXCEPT ![s] = "upload.invalidFormat"]
                /\ parsedData' = [parsedData EXCEPT ![s] = <<>>]
           ELSE /\ parsedData' = [parsedData EXCEPT ![s] = mapped]
                /\ UNCHANGED error
    /\ parsing' = [parsing EXCEPT ![s] = FALSE]
    /\ UNCHANGED <<storeVars, user, otherVars, location, file, runVars>>

\* Papa.parse's error callback.
ParseError(s) ==
    /\ location[s] = "upload"
    /\ parsing[s]
    /\ error' = [error EXCEPT ![s] = "upload.invalidFormat"]
    /\ parsing' = [parsing EXCEPT ![s] = FALSE]
    /\ UNCHANGED <<storeVars, user, otherVars, location, file, parsedData, runVars>>

\* A resetUpload that clears the file and the error and leaves the preview.
ResetKeepsPreview(s) ==
    /\ location[s] = "upload"
    /\ error[s] # "null" \/ (Len(parsedData[s]) > 0 /\ ~parsing[s])
    /\ file' = [file EXCEPT ![s] = <<>>]
    /\ error' = [error EXCEPT ![s] = "null"]
    /\ UNCHANGED <<storeVars, user, otherVars, location, parsedData, parsing, runVars>>

\* resetUpload, from the error card's Back button or the preview's Cancel button.
ResetUpload(s) ==
    /\ location[s] = "upload"
    /\ error[s] # NoError \/ (Len(parsedData[s]) > 0 /\ ~parsing[s])
    /\ file' = [file EXCEPT ![s] = NoFile]
    /\ parsedData' = [parsedData EXCEPT ![s] = <<>>]
    /\ error' = [error EXCEPT ![s] = NoError]
    /\ UNCHANGED <<storeVars, user, otherVars, location, parsing, runVars>>

\* ------------------------------------------------------------ History page

\* deleteUpload(id): supabase.from('uploads').delete().eq('id', id), as user u.
DeleteUpload(u, id) ==
    /\ id \in Ids(UserUploads(u))
    /\ uploads' = DeleteUploads({id}, u)
    /\ equipment_data' = Cascade(DeleteUploads({id}, u))
    /\ UNCHANGED <<clock, user, otherVars, location, pageVars, runVars>>

\* ----------------------------------------------------------- Settings page

\* handleDeleteAllData, first await, as user u:
\* supabase.from('equipment_data').delete().eq('user_id', user.id); its error is not read.
DeleteAllEquipment(u, o) ==
    /\ u # NoUser
    /\ deleting = "idle"
    /\ equipment_data' = IF o = "ok" THEN {e \in equipment_data : e.user_id # u}
                          ELSE equipment_data
    /\ deleting' = "uploads"
    /\ UNCHANGED <<uploads, clock, user, location, pageVars, runVars, vizVars, authVars>>

\* handleDeleteAllData, second await: supabase.from('uploads').delete().eq('user_id',
\* user.id); its error is not read either, and the success toast follows.
DeleteAllUploads(u, o) ==
    /\ deleting = "uploads"
    /\ LET left == IF o = "ok" THEN {r \in uploads : r.user_id # u} ELSE uploads
       IN  /\ uploads' = left
           /\ equipment_data' = Cascade(left)
    /\ deleting' = "idle"
    /\ UNCHANGED <<clock, user, location, pageVars, runVars, vizVars, authVars>>

\* ----------------------------------------------------------- Visualization

\* The fetchData calls that may be in flight at once.
MaxFetches == 3

\* supabase.from('equipment_data').select('*').eq('upload_id', uploadId), which the
\* row level security narrows to the rows of user u.
SelectEquipment(u, uploadId) ==
    {e \in equipment_data : e.upload_id = uploadId /\ e.user_id = u}

\* A sequence without its i-th element.
Without(seq, i) == SubSeq(seq, 1, i - 1) \o SubSeq(seq, i + 1, Len(seq))

\* fetchUploads, called by the mount effect of user u's page, returns: setUploads, and with no upload
\* selected the newest one is selected, on which the second effect calls fetchData.
FetchUploadsReturn(u) ==
    /\ u # NoUser
    /\ ~vizUploads.loaded
    /\ LET uploadsData == SelectUploads(u)
       IN  /\ vizUploads' = [loaded |-> TRUE, ids |-> uploadsData]
           /\ IF selectedUpload = NoUpload /\ uploadsData # <<>>
              THEN /\ selectedUpload' = uploadsData[1]
                   /\ fetching' = Append(fetching, uploadsData[1])
              ELSE UNCHANGED <<selectedUpload, fetching>>
    /\ UNCHANGED <<storeVars, user, location, pageVars, runVars, deleting, vizData, authVars>>

\* onValueChange={setSelectedUpload} with another upload of the list: the effect on
\* selectedUpload calls fetchData(id), which nothing cancels or orders.
SelectUpload(id) ==
    /\ vizUploads.loaded
    /\ id \in Range(vizUploads.ids)
    /\ id # selectedUpload
    /\ Len(fetching) < MaxFetches
    /\ selectedUpload' = id
    /\ fetching' = Append(fetching, id)
    /\ UNCHANGED <<storeVars, user, location, pageVars, runVars, deleting, vizUploads, vizData, authVars>>

\* The i-th fetchData in flight returns: setData(equipmentData || []).
FetchDataReturn(u, i) ==
    /\ i \in 1..Len(fetching)
    /\ vizData' = SelectEquipment(u, fetching[i])
    /\ fetching' = Without(fetching, i)
    /\ UNCHANGED <<storeVars, user, location, pageVars, runVars, deleting, vizUploads, selectedUpload, authVars>>

\* -------------------------------------------------------------------- Auth

\* The fields of formData, their initial values, and errors without a message.
AuthFields == {"fullName", "email", "password", "confirmPassword"}
EmptyForm == [fullName |-> "", email |-> "", password |-> "", confirmPassword |-> ""]
NoErrors == [f \in AuthFields |-> ""]

\* The signUp and signIn calls one visit of the page may issue.
MaxAuthCalls == 1

\* The bounds of the schemas: fullName min(2) and max(100), password min(6).
NameMin == 2
NameMax == 100
PasswordMin == 6

\* n copies of the character c.
RECURSIVE Repeat(_, _)
Repeat(c, n) == IF n = 0 THEN "" ELSE c \o Repeat(c, n - 1)

\* The values typed into the fields, which start empty: names of 1, 2, 100 and 101
\* characters, addresses with and without a dotted domain, passwords of 5 and 6
\* characters.
Names == {"A", "Al", Repeat("n", NameMax), Repeat("n", NameMax + 1)}
Emails == {"a@b", "a@b.co"}
Passwords == {"12345", "123456", "654321"}
Typed(name) ==
    CASE name = "fullName" -> Names
      [] name = "email" -> Emails
      [] OTHER -> Passwords

\* z.string().email() on an address of letters, dots and at signs: one at sign, a local
\* part that neither starts nor ends with a dot, no two dots in a row, and a domain of
\* at least two labels whose last has two letters or more.
Positions(str, c) == {i \in 1..Len(str) : Char(str, i) = c}
IsEmail(e) ==
    /\ Cardinality(Positions(e, "@")) = 1
    /\ LET at == CHOOSE i \in Positions(e, "@") : TRUE
           local == SubSeq(e, 1, at - 1)
           domain == SubSeq(e, at + 1, Len(e))
           dots == Positions(domain, ".")
           lastDot == CHOOSE i \in dots : \A j \in dots : j <= i
       IN  /\ Len(local) >= 1
           /\ Char(local, 1) # "." /\ Char(local, Len(local)) # "."
           /\ ~Includes(e, "..")
           /\ dots # {}
           /\ Char(domain, 1) # "."
           /\ Len(domain) - lastDot >= 2

\* fieldErrors of signInSchema.safeParse(formData): the message of the issue of each
\* path, '' for a path without one; all '' when the parse succeeds.
SignInIssues(form) ==
    [f \in AuthFields |->
        CASE f = "email" /\ ~IsEmail(form.email) -> "Invalid email address"
          [] f = "password" /\ Len(form.password) < PasswordMin ->
                "Password must be at least 6 characters"
          [] OTHER -> ""]

\* The issues of signUpSchema's object, without its refinement.
SignUpIssuesUnrefined(form) ==
    [f \in AuthFields |->
        CASE f = "fullName" /\ Len(form.fullName) < NameMin ->
                "Name must be at least 2 characters"
          [] f = "fullName" /\ Len(form.fullName) > NameMax ->
                "String must contain at most 100 character(s)"
          [] OTHER -> SignInIssues(form)[f]]

\* fieldErrors of signUpSchema.safeParse(formData): the object's issues and the
\* refinement's on the path confirmPassword.
SignUpIssues(form) ==
    [f \in AuthFields |->
        IF f = "confirmPassword" /\ form.password # form.confirmPassword
        THEN "Passwords don't match"
        ELSE SignUpIssuesUnrefined(form)[f]]

\* The outcomes of a signUp or signIn call: no error, an error whose message includes
\* 'already registered', another error, and an exception.
AuthOutcomes == {"ok", "registered", "error", "throw"}

\* The button under the form: setIsSignUp(!isSignUp); setErrors({}). It is not disabled
\* while a call is in flight.
ToggleMode ==
    /\ authPc # "done"
    /\ isSignUp' = ~isSignUp
    /\ errors' = NoErrors
    /\ UNCHANGED <<storeVars, user, location, pageVars, runVars, deleting, vizVars,
                   formData, loading, authPc, authCalls, authToasts>>

\* handleChange on the input `name`, which is rendered in the current mode and is
\* disabled while loading: the value is stored and the field's error is emptied.
HandleChange(name, value) ==
    /\ authPc # "done"
    /\ ~loading
    /\ name \in {"fullName", "confirmPassword"} => isSignUp
    /\ formData[name] # value
    /\ formData' = [formData EXCEPT ![name] = value]
    /\ errors' = IF errors[name] # "" THEN [errors EXCEPT ![name] = ""] ELSE errors
    /\ UNCHANGED <<storeVars, user, location, pageVars, runVars, deleting, vizVars,
                   isSignUp, loading, authPc, authCalls, authToasts>>

\* handleSubmit up to its first await: setLoading(true), setErrors({}), the schema of
\* the mode, and either the field errors with setLoading(false) and the return, or the
\* call of signUp or signIn. The submit button is disabled while loading.
HandleSubmit ==
    /\ authPc = "idle"
    /\ ~loading
    /\ LET issues == IF isSignUp THEN SignUpIssues(formData) ELSE SignInIssues(formData)
       IN  IF issues # NoErrors
           THEN /\ errors' = issues
                /\ loading' = FALSE
                /\ UNCHANGED <<authPc, authCalls>>
           ELSE /\ Len(authCalls) < MaxAuthCalls
                /\ errors' = NoErrors
                /\ loading' = TRUE
                /\ authPc' = IF isSignUp THEN "signUp" ELSE "signIn"
                /\ authCalls' = Append(authCalls,
                      IF isSignUp
                      THEN <<"signUp", formData.email, formData.password, formData.fullName>>
                      ELSE <<"signIn", formData.email, formData.password>>)
    /\ UNCHANGED <<storeVars, user, location, pageVars, runVars, deleting, vizVars,
                   isSignUp, formData, authToasts>>

\* The call returns with outcome o: the toast of the branch, navigate on success, and
\* finally setLoading(false).
AuthReturn(o) ==
    /\ authPc \in {"signUp", "signIn"}
    /\ authToasts' = authToasts \cup
          {CASE o = "throw" -> "An unexpected error occurred"
             [] o = "ok" /\ authPc = "signUp" -> "auth.signUpSuccess"
             [] o = "ok" /\ authPc = "signIn" -> "auth.signInSuccess"
             [] o \in {"registered", "error"} /\ authPc = "signIn" -> "auth.invalidCredentials"
             [] o = "registered" /\ authPc = "signUp" ->
                   "This email is already registered. Please sign in instead."
             [] OTHER -> "error.message"}
    /\ authPc' = IF o = "ok" THEN "done" ELSE "idle"
    /\ loading' = FALSE
    /\ UNCHANGED <<storeVars, user, location, pageVars, runVars, deleting, vizVars,
                   isSignUp, formData, errors, authCalls>>

\* ------------------------------------------------------------ handleUpload


\* if (!file || parsedData.length === 0) return;  (negated), without the user test.
CanConfirmAnyone(s) == file[s] # <<>> /\ parsedData[s] # <<>>

\* if (!user || !file || parsedData.length === 0) return;  (negated)
CanConfirm(s) == user[s] # NoUser /\ file[s] # NoFile /\ parsedData[s] # <<>>

\* The confirm button is rendered with the preview and disabled while uploading.
ConfirmShown(s) ==
    location[s] = "upload" /\ Len(parsedData[s]) > 0 /\ ~parsing[s] /\ ~uploading[s]

\* A call is appended to the log when it is issued and completed when it returns.
Issue(log, call) == Append(log, <<call, "pending">>)
Return(log, result) == [log EXCEPT ![Len(log)] = <<log[Len(log)][1], result>>]

\* Mutant: the retention delete issued whatever was read.
AfterSelectDelete(existing) == "delete"

\* The call issued after the retention read has returned.
AfterSelect(existing) == IF NeedsEviction(existing) THEN "delete" ELSE "insert"

\* if (uploadError) throw uploadError;
ThrowsUploadError(result) == result = "error"

\* Mutant: dataError is not read.
IgnoresDataError(result) == FALSE

\* if (dataError) throw dataError;
ThrowsDataError(result) == result = "error"

\* catch: toast.error(...)
Caught(shown) == shown \cup {"error"}

\* Mutant: the uploading flag is left as it is.
FinallySkipped(s) == uploading

\* finally: setUploading(false)
Finally(s) == [uploading EXCEPT ![s] = FALSE]

\* Click on the confirm button: the guard, setUploading(true), the summary, and the
\* retention read is issued.
HandleUpload(s) ==
    /\ ConfirmShown(s)
    /\ pc[s] = "idle"
    /\ IF ~CanConfirm(s)
       THEN UNCHANGED vars
       ELSE /\ uploading' = [uploading EXCEPT ![s] = TRUE]
            /\ run' = [run EXCEPT ![s] =
                    [user |-> user[s], file |-> file[s], parsedData |-> parsedData[s]]]
            /\ existingUploads' = [existingUploads EXCEPT ![s] = NoRead]
            /\ uploadData' = [uploadData EXCEPT ![s] = NoUpload]
            /\ toasts' = [toasts EXCEPT ![s] = {}]
            /\ navigated' = [navigated EXCEPT ![s] = NoUpload]
            /\ calls' = [calls EXCEPT ![s] = Issue(<<>>, "select")]
            /\ pc' = [pc EXCEPT ![s] = "select"]
            /\ UNCHANGED <<storeVars, user, otherVars, location, pageVars>>

\* The retention read returns; the delete or the upload insert is issued.
RetentionSelect(s, o) ==
    /\ pc[s] = "select"
    /\ LET existing == IF o = "ok"
                       THEN [null |-> FALSE, rows |-> SelectUploads(run[s].user)]
                       ELSE NoRead
           next == AfterSelect(existing)
       IN  /\ existingUploads' = [existingUploads EXCEPT ![s] = existing]
           /\ calls' = [calls EXCEPT ![s] = Issue(Return(calls[s], o), next)]
           /\ pc' = [pc EXCEPT ![s] = next]
    /\ UNCHANGED <<storeVars, user, otherVars, location, pageVars, run, uploadData, toasts,
                   navigated, uploading>>

\* The retention delete returns (its error is not read); the upload insert is issued.
RetentionDelete(s, o) ==
    /\ pc[s] = "delete"
    /\ LET left == IF o = "ok"
                   THEN DeleteUploads(ToDelete(existingUploads[s]), run[s].user)
                   ELSE uploads
       IN  /\ uploads' = left
           /\ equipment_data' = Cascade(left)
    /\ calls' = [calls EXCEPT ![s] = Issue(Return(calls[s], o), "insert")]
    /\ pc' = [pc EXCEPT ![s] = "insert"]
    /\ UNCHANGED <<clock, user, otherVars, location, pageVars, run, existingUploads, uploadData,
                   toasts, navigated, uploading>>

\* The upload insert returns: on an error the catch and finally blocks run, otherwise
\* the equipment insert is issued.
InsertUpload(s, o) ==
    /\ pc[s] = "insert"
    /\ o = "ok" => clock < MaxClock
    /\ IF ThrowsUploadError(o)
       THEN /\ toasts' = [toasts EXCEPT ![s] = Caught(toasts[s])]
            /\ uploading' = Finally(s)
            /\ calls' = [calls EXCEPT ![s] = Return(calls[s], o)]
            /\ pc' = [pc EXCEPT ![s] = "idle"]
            /\ UNCHANGED <<storeVars, uploadData>>
       ELSE LET new == NewUpload(run[s].user, run[s].file[1], run[s].parsedData)
            IN  /\ uploads' = uploads \cup {new}
                /\ clock' = clock + 1
                /\ uploadData' = [uploadData EXCEPT ![s] = new.id]
                /\ calls' = [calls EXCEPT ![s] = Issue(Return(calls[s], o), "rows")]
                /\ pc' = [pc EXCEPT ![s] = "rows"]
                /\ UNCHANGED <<equipment_data, toasts, uploading>>
    /\ UNCHANGED <<user, otherVars, location, pageVars, run, existingUploads, navigated>>

\* An equipment insert that no foreign key checks.
RowsResultUnchecked(s, o) == o

\* The result of the equipment insert: the foreign key upload_id REFERENCES
\* public.uploads(id) rejects the batch when the upload is gone.
RowsResult(s, o) ==
    IF o = "ok" /\ uploadData[s] \in Ids(uploads) THEN "ok" ELSE "error"

\* The equipment insert returns: success toast and navigation, or the catch block;
\* then the finally block.
InsertEquipment(s, o) ==
    /\ pc[s] = "rows"
    /\ LET result == RowsResult(s, o)
       IN  /\ calls' = [calls EXCEPT ![s] = Return(calls[s], result)]
           /\ IF ThrowsDataError(result)
              THEN /\ toasts' = [toasts EXCEPT ![s] = Caught(toasts[s])]
                   /\ UNCHANGED <<equipment_data, navigated, location>>
              ELSE /\ equipment_data' = equipment_data \cup
                        EquipmentRecords(uploadData[s], run[s].user, run[s].parsedData)
                   /\ toasts' = [toasts EXCEPT ![s] = toasts[s] \cup {"success"}]
                   /\ navigated' = [navigated EXCEPT ![s] = uploadData[s]]
                   /\ location' = [location EXCEPT ![s] = "visualization"]
    /\ uploading' = Finally(s)
    /\ pc' = [pc EXCEPT ![s] = "idle"]
    /\ UNCHANGED <<uploads, clock, user, otherVars, pageVars, run, existingUploads, uploadData>>

\* ------------------------------------------------------------ specifications

\* The Settings, Visualization and Auth pages after construction.
InitOther ==
    /\ deleting = "idle"
    /\ vizUploads = [loaded |-> FALSE, ids |-> <<>>]
    /\ selectedUpload = NoUpload
    /\ vizData = {}
    /\ fetching = <<>>
    /\ isSignUp = FALSE
    /\ formData = EmptyForm
    /\ errors = NoErrors
    /\ loading = FALSE
    /\ authPc = "idle"
    /\ authCalls = <<>>
    /\ authToasts = {}

\* The state after construction: an empty store, every session signed in on a freshly
\* mounted Upload page.
Init ==
    /\ InitOther
    /\ uploads = {}
    /\ equipment_data = {}
    /\ clock = 0
    /\ user \in [Sessions -> Users]
    /\ location = [s \in Sessions |-> "upload"]
    /\ file = [s \in Sessions |-> NoFile]
    /\ parsedData = [s \in Sessions |-> <<>>]
    /\ parsing = [s \in Sessions |-> FALSE]
    /\ uploading = [s \in Sessions |-> FALSE]
    /\ error = [s \in Sessions |-> NoError]
    /\ pc = [s \in Sessions |-> "idle"]
    /\ run = [s \in Sessions |-> NoRun]
    /\ existingUploads = [s \in Sessions |-> NoRead]
    /\ uploadData = [s \in Sessions |-> NoUpload]
    /\ calls = [s \in Sessions |-> <<>>]
    /\ toasts = [s \in Sessions |-> {}]
    /\ navigated = [s \in Sessions |-> NoUpload]

\* The files handleFile accepts and parseCSV turns into a non-empty preview.
Previewed == {f \in Files : EndsWith(f.name, ".csv") /\ f.size <= MaxFileSize
                            /\ ParseResult[f] # <<>>}

\* The store after RetentionCap confirmed uploads of FileOne by user u, one after the
\* other, of which the user has deleted all but the k newest on the History page.
SeededUploads(u, k) ==
    {[id |-> i, user_id |-> u, filename |-> FileOne.name,
      record_count |-> Len(ParseResult[FileOne]),
      summary |-> Summary(ParseResult[FileOne]), created_at |-> i] :
        i \in (RetentionCap - k + 1)..RetentionCap}
SeededRows(u, k) ==
    UNION {EquipmentRecords(i, u, ParseResult[FileOne]) :
             i \in (RetentionCap - k + 1)..RetentionCap}

\* Parallel sessions, those of `tabs` with a file selected and its preview shown, each
\* the session of a user of `us` or of none, over a store that holds up to
\* RetentionCap complete uploads of user u1.
InitSeeded(tabs, us) ==
    /\ InitOther
    /\ \E k \in 0..RetentionCap :
         /\ uploads = SeededUploads("u1", k)
         /\ equipment_data = SeededRows("u1", k)
    /\ clock = RetentionCap
    /\ user \in [Sessions -> us]
    /\ location = [s \in Sessions |-> "upload"]
    /\ file \in [Sessions -> {<<f>> : f \in Previewed} \cup {NoFile}]
    /\ \A s \in Sessions : file[s] # NoFile <=> s \in tabs
    /\ parsedData = [s \in Sessions |->
                        IF file[s] = NoFile THEN <<>> ELSE ParseResult[file[s][1]]]
    /\ parsing = [s \in Sessions |-> FALSE]
    /\ uploading = [s \in Sessions |-> FALSE]
    /\ error = [s \in Sessions |-> NoError]
    /\ pc = [s \in Sessions |-> "idle"]
    /\ run = [s \in Sessions |-> NoRun]
    /\ existingUploads = [s \in Sessions |-> NoRead]
    /\ uploadData = [s \in Sessions |-> NoUpload]
    /\ calls = [s \in Sessions |-> <<>>]
    /\ toasts = [s \in Sessions |-> {}]
    /\ navigated = [s \in Sessions |-> NoUpload]

\* Parallel sessions of one user, those of `tabs` with a file selected and its preview
\* shown, over a store that holds up to RetentionCap complete uploads of that user.
InitLoaded(tabs) == InitSeeded(tabs, {"u1"})


\* One confirm: handleUpload and its store calls, each ending with an outcome of `os`.
Confirm(s, os) ==
    \/ HandleUpload(s)
    \/ \E o \in os : RetentionSelect(s, o)
    \/ \E o \in os : RetentionDelete(s, o)
    \/ \E o \in os : InsertUpload(s, o)
    \/ \E o \in os : InsertEquipment(s, o)

\* Two parallel sessions confirming their previews, again after a failure, against a
\* store whose calls may fail.
Tabs == {"s1", "s2"}
InitTabs == InitLoaded(Tabs)
Next == \E s \in Tabs : Confirm(s, Outcomes)

Spec == InitTabs /\ [][Next]_vars

\* Any number of parallel sessions confirming their previews; no store call fails.
NextRace == \E s \in Sessions : Confirm(s, {"ok"})

InitRace == InitLoaded(Sessions)
SpecRace == InitRace /\ [][NextRace]_vars

\* One session from construction on: a file is selected, parsed and confirmed, the
\* page is opened again, and uploads are deleted from the History page between two
\* confirms; no store call fails.
NextSeq ==
    \/ OpenUploadPage("s1")
    \/ \E f \in Previewed : HandleFile("s1", f)
    \/ ParseComplete("s1")
    \/ Confirm("s1", {"ok"})
    \/ /\ pc["s1"] = "idle"
       /\ \E id \in 1..MaxClock : DeleteUpload(user["s1"], id)

SpecSeq == Init /\ [][NextSeq]_vars

\* The parse pipeline over the generated files: one session selects a file, the parse
\* completes, and the page is reset.
NextParse ==
    \/ \E f \in HeaderFiles : HandleFile("s1", f)
    \/ ParseComplete("s1")
    \/ ResetUpload("s1")

SpecParse == Init /\ [][NextParse]_vars

\* The parse pipeline over the files of chosen cell texts and of several records.
NextRows ==
    \/ \E f \in ValueFiles \cup SampleFiles : HandleFile("s1", f)
    \/ ParseComplete("s1")
    \/ ResetUpload("s1")

SpecRows == Init /\ [][NextRows]_vars

\* One session from construction on: a file of several records is selected, parsed
\* and confirmed once against the empty store, where nothing is to be evicted; no
\* store call fails.
NextSummary ==
    \/ \E f \in SampleFiles \cup {FileOne} : HandleFile("s1", f)
    \/ ParseComplete("s1")
    \/ HandleUpload("s1")
    \/ RetentionSelect("s1", "ok")
    \/ InsertUpload("s1", "ok")
    \/ InsertEquipment("s1", "ok")

SpecSummary == Init /\ [][NextSummary]_vars

\* One visit of the Upload page from construction on: files are offered, accepted or
\* rejected, parsed with either callback, reset, and confirmed against a store whose
\* calls may fail, until a confirm succeeds and the page is left.
NextPage ==
    \/ \E f \in PageFiles : HandleFile("s1", f)
    \/ ParseComplete("s1")
    \/ ParseError("s1")
    \/ ResetUpload("s1")
    \/ Confirm("s1", Outcomes)

SpecPage == Init /\ [][NextPage]_vars

\* A session confirming its preview, again after a failure, while the user deletes
\* single uploads on the History page and all data on the Settings page; the store
\* rejects an equipment insert whose upload is gone, and a delete-all call may fail.
NextStore ==
    \/ Confirm("s1", {"ok"})
    \/ \E id \in 1..MaxClock : DeleteUpload("u1", id)
    \/ \E o \in Outcomes : DeleteAllEquipment("u1", o)
    \/ \E o \in Outcomes : DeleteAllUploads("u1", o)

SpecStore == InitLoaded({"s1"}) /\ [][NextStore]_vars

\* Two parallel sessions, each of user u1, of user u2 or of no user, confirming their
\* previews; no store call fails.
People == {"u1", "u2", NoUser}
InitIdentity == InitSeeded(Tabs, People)
NextIdentity == \E s \in Tabs : Confirm(s, {"ok"})

SpecIdentity == InitIdentity /\ [][NextIdentity]_vars

\* The Visualization page of user u1 over a store of up to RetentionCap uploads: the
\* list loads, the user selects uploads, and the fetches return in any order.
NextVisualization ==
    \/ FetchUploadsReturn("u1")
    \/ \E id \in 1..RetentionCap : SelectUpload(id)
    \/ \E i \in 1..MaxFetches : FetchDataReturn("u1", i)

SpecVisualization == InitLoaded({}) /\ [][NextVisualization]_vars

\* One visit of the Auth page: typing, switching the mode, submitting, and the calls
\* returning.
NextAuth ==
    \/ ToggleMode
    \/ \E name \in AuthFields : \E value \in Typed(name) : HandleChange(name, value)
    \/ HandleSubmit
    \/ \E o \in AuthOutcomes : AuthReturn(o)

SpecAuth == Init /\ [][NextAuth]_vars

\* ------------------------------------------------------------------ claims

Count(u) == Cardinality(UserUploads(u))
Read(s) == existingUploads[s].rows
ReadFive(s) == ~existingUploads[s].null /\ Len(Read(s)) = RetentionCap
Results(s) == Range(calls[s])
\* Upload ids are allocated in creation order, so the oldest of a set of uploads is
\* the one with the least id, also when its record is gone.
Oldest(ids) == {d \in ids : \A b \in ids : d <= b}

\* C1: one session, no failing store call: a confirm that read exactly 5 uploads has,
\* once its upload is inserted, removed exactly one of them, the oldest, and the user
\* has exactly 5 uploads: the other four and the new one.
C1_EvictsOldestOfFive ==
    \A s \in Sessions :
        (pc[s] = "rows" /\ ReadFive(s)) =>
            LET before == Range(Read(s))
                now == Ids(UserUploads(run[s].user))
            IN  /\ Cardinality(before \ now) = 1
                /\ before \ now = Oldest(before)
                /\ now = (before \ Oldest(before)) \cup {uploadData[s]}
                /\ Cardinality(now) = RetentionCap

C1_Witness == pc["s1"] = "rows" /\ ReadFive("s1") /\ uploadData["s1"] \in Ids(uploads)

\* C2: confirms one after the other with deletions between them, from an empty store,
\* no failing store call: whenever no confirm is running the user has at most 5 uploads.
C2_AtMostFiveAfterConfirm ==
    \A s \in Sessions : pc[s] = "idle" => \A u \in Users : Count(u) <= RetentionCap

C2_Witness ==
    /\ pc["s1"] = "idle"
    /\ navigated["s1"] # NoUpload
    /\ clock > RetentionCap
    /\ Count("u1") = RetentionCap

\* C3: under parallel confirms of one user, from at most 5 uploads, the user never
\* has more than 6 uploads.
C3_NeverMoreThanSix == \A u \in Users : Count(u) <= RetentionCap + 1

\* C4: two parallel confirms that both read the same 5 uploads and have both inserted
\* their upload, while no other session confirmed, leave the user with 6 uploads: the
\* four newest that were read and the two new ones.
C4_StaleReadsLeaveSix ==
    \A s, t \in Sessions :
        (/\ s # t
         /\ ReadFive(s) /\ ReadFive(t) /\ Read(s) = Read(t)
         /\ uploadData[s] # NoUpload /\ uploadData[t] # NoUpload
         /\ \A r \in Sessions \ {s, t} : calls[r] = <<>>) =>
            LET before == Range(Read(s))
                now == Ids(UserUploads(run[s].user))
            IN  /\ now = (before \ Oldest(before)) \cup {uploadData[s], uploadData[t]}
                /\ Cardinality(now) = RetentionCap + 1

C4_Witness ==
    /\ ReadFive("s1") /\ ReadFive("s2") /\ Read("s1") = Read("s2")
    /\ pc["s1"] = "idle" /\ pc["s2"] = "idle"
    /\ navigated["s1"] # NoUpload /\ navigated["s2"] # NoUpload
    /\ calls["s3"] = <<>>
    /\ Count("u1") = RetentionCap + 1

\* C5: a confirm in which some store call failed has ended with the error
\* notification alone and without the navigation.
C5_AnyFailureIsReported ==
    \A s \in Sessions :
        (pc[s] = "idle" /\ \E c \in Results(s) : c[2] = "error") =>
            (toasts[s] = {"error"} /\ navigated[s] = NoUpload)

\* C6: when no confirm is running, every upload record has exactly record_count
\* equipment rows.
C6_UploadsHaveTheirRows ==
    (\A s \in Sessions : pc[s] = "idle") =>
        \A r \in uploads :
            Cardinality({e \in equipment_data : e.upload_id = r.id}) = r.record_count

\* C7: a confirm whose upload insert succeeded and whose equipment insert failed has
\* ended with the error notification, without the success notification and without
\* the navigation.
C7_RowsFailureIsReported ==
    \A s \in Sessions :
        (pc[s] = "idle" /\ <<"insert", "ok">> \in Results(s)
                        /\ <<"rows", "error">> \in Results(s)) =>
            /\ toasts[s] = {"error"}
            /\ navigated[s] = NoUpload
            /\ location[s] = "upload"

C7_Witness ==
    \E s \in Sessions :
        /\ pc[s] = "idle"
        /\ <<"insert", "ok">> \in Results(s)
        /\ <<"rows", "error">> \in Results(s)
        /\ \E r \in uploads : r.id \notin {e.upload_id : e \in equipment_data}

\* C8: the uploading flag is false whenever no confirm is running, and after a confirm
\* that ended with the error notification the file and the preview are those the
\* confirm started with and the confirm can be issued again.
C8_PreviewKeptAfterFailure ==
    \A s \in Sessions :
        /\ pc[s] = "idle" => ~uploading[s]
        /\ (pc[s] = "idle" /\ "error" \in toasts[s]) =>
              /\ file[s] = run[s].file
              /\ parsedData[s] = run[s].parsedData
              /\ ConfirmShown(s)
              /\ CanConfirm(s)

C8_Witness ==
    \E s \in Sessions :
        /\ pc[s] = "idle"
        /\ toasts[s] = {"error"}
        /\ ~uploading[s]
        /\ parsedData[s] # <<>>

\* C9: the calls of one confirm are issued in the order read, delete, upload insert,
\* equipment insert, the delete exactly when 5 or more uploads were read; every call
\* but the last has returned when the next is issued, and the equipment insert is
\* issued only after the upload insert returned without error and with the new id.
CallNames(s) == [i \in 1..Len(calls[s]) |-> calls[s][i][1]]
IsPrefix(p, q) == Len(p) <= Len(q) /\ SubSeq(q, 1, Len(p)) = p
C9_CallsInOrder ==
    \A s \in Sessions :
        LET names == CallNames(s)
            n == Len(names)
        IN  /\ \/ IsPrefix(names, <<"select", "delete", "insert", "rows">>)
               \/ IsPrefix(names, <<"select", "insert", "rows">>)
            /\ \A i \in 1..n : (calls[s][i][2] = "pending") <=> (i = n /\ pc[s] # "idle")
            /\ n >= 2 =>
                 ((names[2] = "delete") <=>
                    (~existingUploads[s].null /\ Len(Read(s)) >= RetentionCap))
            /\ "rows" \in Range(names) =>
                 (<<"insert", "ok">> \in Results(s) /\ uploadData[s] # NoUpload)

C9_Witness ==
    \E s \in Sessions :
        /\ pc[s] = "idle"
        /\ calls[s] = << <<"select", "ok">>, <<"delete", "ok">>, <<"insert", "ok">>,
                         <<"rows", "ok">> >>

\* C10: no header is the column of two canonical fields, and a field none of whose
\* synonyms is contained in a header has no column.
C10_OneFieldPerHeader ==
    \A s \in Sessions :
        (file[s] # NoFile /\ ~parsing[s]) =>
            \A i \in 1..Len(file[s][1].data) :
                LET keys == Keys(file[s][1].data[i])
                    col == ColumnMapping(keys)
                IN  /\ \A a, b \in Fields :
                          (a # b /\ col[a] # Undefined /\ col[b] # Undefined) =>
                              col[a] # col[b]
                    /\ \A a \in Fields :
                          (\A k \in Range(keys) : ~SomePattern(k, PatternsOf[a])) =>
                              col[a] = Undefined

\* The rows of the file session s has selected, once its parse has ended.
ParsedRows(s) == IF file[s] # NoFile /\ ~parsing[s] THEN Range(file[s][1].data) ELSE {}

\* The indices of the keys that contain synonym p, case-insensitively.
Containing(keys, p) == {i \in 1..Len(keys) : Includes(ToLowerCase(keys[i]), ToLowerCase(p))}

\* The column by synonym priority: the first synonym of the list that some key
\* contains, and the first key in key order containing that synonym.
BySynonymOrder(keys, patterns) ==
    LET found == {n \in 1..Len(patterns) : Containing(keys, patterns[n]) # {}}
    IN  IF found = {} THEN Undefined
        ELSE LET n == CHOOSE m \in found : \A o \in found : m <= o
                 hits == Containing(keys, patterns[n])
             IN  <<keys[CHOOSE i \in hits : \A j \in hits : i <= j]>>

\* C11: the column of every canonical field is the one chosen by synonym priority:
\* the first synonym in list order contained in some header, then the first header
\* in header order containing that synonym.
C11_SynonymOrderFirst ==
    \A s \in Sessions : \A row \in ParsedRows(s) : \A a \in Fields :
        ColumnMapping(Keys(row))[a] = BySynonymOrder(Keys(row), PatternsOf[a])

\* C12: when some header contains "flow", case-insensitively, the flowrate column is
\* the first such header in header order.
C12_FirstFlowHeader ==
    \A s \in Sessions : \A row \in ParsedRows(s) :
        LET keys == Keys(row)
            hits == Containing(keys, "flow")
        IN  hits # {} =>
              ColumnMapping(keys).flowrate = <<keys[CHOOSE i \in hits : \A j \in hits : i <= j]>>

\* A parsed file with two flow headers, the later one matching an earlier synonym.
C12_Witness ==
    /\ ~parsing["s1"] /\ file["s1"] # NoFile
    /\ Keys(file["s1"][1].data[1]) = <<"FLOW", "Flow Rate">>
    /\ ColumnMapping(Keys(file["s1"][1].data[1])).flowrate = <<"FLOW">>
    /\ error["s1"] = "upload.invalidFormat"

\* The numeric canonical fields, and the cell of row under the column of field a.
NumericFields == {"flowrate", "pressure", "temperature"}
ColumnOf(row, a) == Columns[Keys(row)][a]
CellOf(row, a) == Get(row, ColumnOf(row, a)[1])

\* C13: a numeric field whose header is mapped and whose text parses to a number n,
\* zero and negative numbers included, is n; it is null only when the header is
\* unmapped or the parse fails.
C13_ParsedNumberIsKept ==
    \A s \in Sessions : \A row \in ParsedRows(s) : \A a \in NumericFields :
        LET mapped == ColumnOf(row, a) # Undefined
        IN  /\ (mapped /\ ParseFloat(CellOf(row, a)) # NaN) =>
                  MapRow(row)[a] = <<ParseFloat(CellOf(row, a))>>
            /\ MapRow(row)[a] = Null =>
                  (~mapped \/ ParseFloat(CellOf(row, a)) = NaN)

\* C14: a mapped numeric header with non-numeric text gives null, never NaN, and the
\* row is in the preview when its name or its type is not the sentinel.
C14_NonNumericIsNull ==
    \A s \in Sessions : \A row \in ParsedRows(s) : \A a \in NumericFields :
        (ColumnOf(row, a) # Undefined /\ ParseFloat(CellOf(row, a)) = NaN) =>
            /\ MapRow(row)[a] = Null
            /\ MapRow(row)[a] # <<NaN>>
            /\ (MapRow(row).equipment_name # Unknown \/ MapRow(row).equipment_type # Unknown)
                  => MapRow(row) \in Range(parsedData[s])

\* A preview of one row whose flow text "abc" became a null flowrate.
C14_Witness ==
    /\ ~parsing["s1"] /\ file["s1"] # NoFile
    /\ file["s1"][1].data = << << <<"Name", " V2 ">>, <<"Type", "">>, <<"Flow", "abc">> >> >>
    /\ parsedData["s1"] = <<[equipment_name |-> "V2", equipment_type |-> "Unknown",
                             flowrate |-> Null, pressure |-> Null, temperature |-> Null]>>

\* The text a field shows for a cell: its trimmed text, or the sentinel when empty.
Shown(text) == IF Trim(text) # "" THEN Trim(text) ELSE "Unknown"

\* C15: equipment_name and equipment_type are the trimmed text of their mapped header
\* when that is non-empty, and "Unknown" in every other case.
C15_TextOrSentinel ==
    \A s \in Sessions : \A row \in ParsedRows(s) :
        /\ MapRow(row).equipment_name =
              IF ColumnOf(row, "name") # Undefined THEN Shown(CellOf(row, "name"))
              ELSE "Unknown"
        /\ MapRow(row).equipment_type =
              IF ColumnOf(row, "type") # Undefined THEN Shown(CellOf(row, "type"))
              ELSE "Unknown"

\* A preview whose name was trimmed and whose blank type became the sentinel.
C15_Witness ==
    /\ ~parsing["s1"] /\ file["s1"] # NoFile
    /\ file["s1"][1].data = << << <<"Name", " V2 ">>, <<"Type", " ">>, <<"Flow", "12.5">> >> >>
    /\ Len(parsedData["s1"]) = 1
    /\ parsedData["s1"][1].equipment_name = "V2"
    /\ parsedData["s1"][1].equipment_type = "Unknown"

\* The indices of the records of data that are not the sentinel in both text fields,
\* and the k-th of them in record order.
Kept(data) ==
    {i \in 1..Len(data) :
        ~(MapRow(data[i]).equipment_name = "Unknown"
          /\ MapRow(data[i]).equipment_type = "Unknown")}
KthKept(data, k) == CHOOSE i \in Kept(data) : Cardinality({j \in Kept(data) : j <= i}) = k

\* C16: after the parse the preview holds exactly the normalized rows that are not
\* "Unknown" in both text fields, in the order of the input rows, whatever their
\* numeric fields.
C16_RetainedIffIdentified ==
    \A s \in Sessions :
        (file[s] # NoFile /\ ~parsing[s]) =>
            LET data == file[s][1].data
            IN  /\ Len(parsedData[s]) = Cardinality(Kept(data))
                /\ \A k \in 1..Len(parsedData[s]) :
                      parsedData[s][k] = MapRow(data[KthKept(data, k)])

\* A preview of three records: the second is dropped, the first has only a type and
\* the third no numeric reading.
C16_Witness ==
    /\ ~parsing["s1"] /\ file["s1"] # NoFile
    /\ file["s1"][1].data = <<RowMixer, RowNote, RowNamed>>
    /\ Len(parsedData["s1"]) = 2
    /\ parsedData["s1"][1].equipment_type = "Mixer"
    /\ parsedData["s1"][2].equipment_name = "N1"
    /\ parsedData["s1"][2].temperature = Null

\* C17 as stated: a row with neither text header mapped is not in the preview, and a
\* row with the type header mapped to a non-empty text and no name header is.
C17_TypeOnlyRetained ==
    \A s \in Sessions : \A row \in ParsedRows(s) :
        ColumnOf(row, "name") = Undefined =>
            /\ ColumnOf(row, "type") = Undefined => MapRow(row) \notin Range(parsedData[s])
            /\ (ColumnOf(row, "type") # Undefined /\ CellOf(row, "type") # "") =>
                  MapRow(row) \in Range(parsedData[s])

\* C17, amended: a row with neither text header mapped is not in the preview, and a
\* row with no name header whose type text, trimmed, is non-empty and is not
\* "Unknown" is in the preview.
C17_TypeOnlyRetainedUnlessSentinel ==
    \A s \in Sessions : \A row \in ParsedRows(s) :
        ColumnOf(row, "name") = Undefined =>
            /\ ColumnOf(row, "type") = Undefined => MapRow(row) \notin Range(parsedData[s])
            /\ (/\ ColumnOf(row, "type") # Undefined
                /\ Trim(CellOf(row, "type")) \notin {"", "Unknown"}) =>
                  MapRow(row) \in Range(parsedData[s])

\* A preview of a record with a type and no name header.
C17_Witness ==
    /\ ~parsing["s1"] /\ file["s1"] # NoFile
    /\ file["s1"][1].data = << << <<"Type", " V2 ">>, <<"Pressure", "0">> >> >>
    /\ Len(parsedData["s1"]) = 1
    /\ parsedData["s1"][1].equipment_name = "Unknown"
    /\ parsedData["s1"][1].equipment_type = "V2"

\* The upload record a run of session s has inserted, while the store has it.
Inserted(s) == uploadData[s] \in Ids(uploads)
TheUpload(s) == CHOOSE u \in uploads : u.id = uploadData[s]

\* The rows with a reading of field a, the product of the readings' denominators, and
\* the sum of the readings as a multiple of 1 / d.
Present(rows, a) == {i \in 1..Len(rows) : rows[i][a] # Null}
RECURSIVE DenProduct(_, _, _)
DenProduct(rows, a, is) ==
    IF is = {} THEN 1
    ELSE LET i == CHOOSE j \in is : TRUE
         IN  rows[i][a][1].den * DenProduct(rows, a, is \ {i})
RECURSIVE ScaledSum(_, _, _, _)
ScaledSum(rows, a, is, d) ==
    IF is = {} THEN 0
    ELSE LET i == CHOOSE j \in is : TRUE
         IN  rows[i][a][1].num * (d \div rows[i][a][1].den) + ScaledSum(rows, a, is \ {i}, d)

\* avg is the sum of the readings of field a divided by their count, or 0 without one.
IsAverage(avg, rows, a) ==
    LET is == Present(rows, a)
        d == DenProduct(rows, a, is)
    IN  IF is = {} THEN avg.num = 0 /\ avg.den = 1
        ELSE avg.den > 0 /\ avg.num * d * Cardinality(is) = ScaledSum(rows, a, is, d) * avg.den

\* C18: each stored average is the sum of the non-null values of its field over the
\* retained rows divided by their number, and 0 when there is none.
C18_AverageOfNonNull ==
    \A s \in Sessions :
        Inserted(s) =>
            /\ IsAverage(TheUpload(s).summary.avgFlowrate, run[s].parsedData, "flowrate")
            /\ IsAverage(TheUpload(s).summary.avgPressure, run[s].parsedData, "pressure")
            /\ IsAverage(TheUpload(s).summary.avgTemperature, run[s].parsedData, "temperature")

\* The stored summary of flow rates [10, null, 20], without a temperature: 15 and 0.
C18_Witness ==
    /\ Inserted("s1") /\ pc["s1"] = "idle"
    /\ Len(run["s1"].parsedData) = 3
    /\ [i \in 1..3 |-> run["s1"].parsedData[i].flowrate] = << <<Number(10, 1)>>, Null, <<Number(20, 1)>> >>
    /\ \A i \in 1..3 : run["s1"].parsedData[i].temperature = Null
    /\ TheUpload("s1").summary.avgFlowrate = Number(15, 1)
    /\ TheUpload("s1").summary.avgTemperature = Number(0, 1)

\* C19: typeDistribution has one key per equipment_type among the retained rows, the
\* sentinel included, each with the number of retained rows of that type.
C19_TypeCounts ==
    \A s \in Sessions :
        Inserted(s) =>
            LET rows == run[s].parsedData
                dist == TheUpload(s).summary.typeDistribution
            IN  /\ DOMAIN dist = {rows[i].equipment_type : i \in 1..Len(rows)}
                /\ \A t \in DOMAIN dist :
                      dist[t] = Cardinality({i \in 1..Len(rows) : rows[i].equipment_type = t})

\* The stored distribution of the types Valve, Valve and the sentinel.
C19_Witness ==
    /\ Inserted("s1") /\ pc["s1"] = "idle"
    /\ Len(run["s1"].parsedData) = 3
    /\ [i \in 1..3 |-> run["s1"].parsedData[i].equipment_type] = <<"Valve", "Valve", "Unknown">>
    /\ DOMAIN TheUpload("s1").summary.typeDistribution = {"Valve", "Unknown"}
    /\ TheUpload("s1").summary.typeDistribution["Valve"] = 2
    /\ TheUpload("s1").summary.typeDistribution["Unknown"] = 1

\* C20: the file with headers Equipment Name, Type, Flow Rate, Pressure, Temp and the
\* row Pump-1, Centrifugal, 12.5, 3.2, 80 gives a preview of that one row, and its
\* upload is stored with the averages 12.5, 3.2, 80 and the distribution
\* Centrifugal: 1.
C20_EndToEnd ==
    \A s \in Sessions :
        /\ (file[s] = <<FileOne>> /\ ~parsing[s]) =>
              parsedData[s] = <<[equipment_name |-> "Pump-1",
                                 equipment_type |-> "Centrifugal",
                                 flowrate |-> <<[num |-> 25, den |-> 2]>>,
                                 pressure |-> <<[num |-> 16, den |-> 5]>>,
                                 temperature |-> <<[num |-> 80, den |-> 1]>>]>>
        /\ (run[s].file = <<FileOne>> /\ Inserted(s)) =>
              /\ TheUpload(s).record_count = 1
              /\ TheUpload(s).summary.avgFlowrate = [num |-> 25, den |-> 2]
              /\ TheUpload(s).summary.avgPressure = [num |-> 16, den |-> 5]
              /\ TheUpload(s).summary.avgTemperature = [num |-> 80, den |-> 1]
              /\ DOMAIN TheUpload(s).summary.typeDistribution = {"Centrifugal"}
              /\ TheUpload(s).summary.typeDistribution["Centrifugal"] = 1

\* The file's upload and its one row are stored and the page has moved on.
C20_Witness ==
    /\ run["s1"].file = <<FileOne>> /\ Inserted("s1")
    /\ pc["s1"] = "idle" /\ navigated["s1"] = uploadData["s1"]
    /\ Cardinality({e \in equipment_data : e.upload_id = uploadData["s1"]}) = 1

\* C21: a .csv file of more than 10 * 1024 * 1024 bytes is rejected with the
\* file-too-large error, which is not the invalid-format error, and no parse is
\* started: file, parsedData and parsing are unchanged; a .csv file of at most that
\* size is accepted and its parse is started.
C21_OversizeRejected ==
    [][\A s \in Sessions : \A f \in PageFiles :
          (HandleFile(s, f) /\ EndsWith(f.name, ".csv")) =>
              IF f.size > 10 * 1024 * 1024
              THEN /\ error'[s] = "upload.fileTooLarge"
                   /\ error'[s] # "upload.invalidFormat"
                   /\ file' = file /\ parsedData' = parsedData /\ parsing' = parsing
              ELSE /\ file'[s] = <<f>>
                   /\ parsing'[s]
                   /\ error'[s] = NoError]_vars

\* The oversize file was offered after a file of exactly 10 MB was parsed and reset.
C21_Witness ==
    /\ error["s1"] = "upload.fileTooLarge"
    /\ file["s1"] = NoFile /\ ~parsing["s1"] /\ parsedData["s1"] = <<>>
    /\ pc["s1"] # "idle" /\ run["s1"].file = <<FileEdge>>

\* The state of a format rejection, and the steps that clear it.
FormatRejected(s) == error[s] = "upload.invalidFormat" /\ parsedData[s] = <<>>
ResetStep(s) == file'[s] = NoFile /\ parsedData'[s] = <<>> /\ error'[s] = NoError
AcceptStep(s) == file[s] = NoFile /\ file'[s] # NoFile /\ parsing'[s]

C29_PreviewXorError ==
    \A s \in Sessions :
        /\ parsedData[s] # <<>> => (file[s] # NoFile /\ error[s] = NoError)
        /\ error[s] # NoError => parsedData[s] = <<>>

\* The error callback ended the parse of a file while a run for an earlier preview is
\* still in flight.
C29_Witness ==
    /\ file["s1"] = <<FileTwo>> /\ ~parsing["s1"]
    /\ error["s1"] = "upload.invalidFormat" /\ parsedData["s1"] = <<>>
    /\ pc["s1"] = "rows" /\ uploading["s1"]

\* C23: every stored equipment row references exactly one stored upload, so no row is
\* left of an upload that was deleted by an eviction, on the History page or on the
\* Settings page.
C23_RowsHaveTheirUpload ==
    /\ \A e \in equipment_data : Cardinality({r \in uploads : r.id = e.upload_id}) = 1
    /\ \A id \in 1..clock : id \notin Ids(uploads) =>
          {e \in equipment_data : e.upload_id = id} = {}

\* The upload of a running confirm was deleted before its rows were inserted, and the
\* store rejected the rows, while rows of other uploads are stored.
C23_Witness ==
    /\ pc["s1"] = "idle"
    /\ calls["s1"] # <<>> /\ calls["s1"][Len(calls["s1"])] = <<"rows", "error">>
    /\ uploadData["s1"] \notin Ids(uploads)
    /\ equipment_data # {}

\* C24: a session without a user issues no store call and stores nothing; every upload
\* and every equipment row a session writes carries the session's user, so every row
\* carries the user of the upload it references.
C24_TaggedWithSessionUser ==
    /\ \A s \in Sessions :
          /\ user[s] = NoUser =>
                (calls[s] = <<>> /\ pc[s] = "idle" /\ uploadData[s] = NoUpload)
          /\ Inserted(s) => TheUpload(s).user_id = user[s]
          /\ \A e \in equipment_data :
                (uploadData[s] # NoUpload /\ e.upload_id = uploadData[s]) => e.user_id = user[s]
    /\ \A r \in uploads : r.user_id \in {"u1", "u2"}
    /\ \A e \in equipment_data : \A r \in uploads :
          r.id = e.upload_id => e.user_id = r.user_id

\* User u2's confirm has stored its upload and rows next to those of u1, and the other
\* session, without a user, shows a preview.
C24_Witness ==
    /\ user["s1"] = "u2" /\ user["s2"] = NoUser
    /\ parsedData["s2"] # <<>> /\ calls["s2"] = <<>>
    /\ pc["s1"] = "idle" /\ navigated["s1"] = uploadData["s1"] /\ Inserted("s1")
    /\ \E e \in equipment_data : e.upload_id = uploadData["s1"] /\ e.user_id = "u2"
    /\ \E r \in uploads : r.user_id = "u1"

\* C26: the upload record a run inserts has the number of rows of the preview the
\* confirm was made with as its record_count, which is at least 1; a run issues store
\* calls only with a user, a file and a non-empty preview.
C26_RecordCountIsPreviewLength ==
    \A s \in Sessions :
        /\ Inserted(s) =>
              /\ TheUpload(s).record_count = Len(run[s].parsedData)
              /\ TheUpload(s).record_count >= 1
        /\ calls[s] # <<>> =>
              (run[s].user # NoUser /\ run[s].file # NoFile /\ Len(run[s].parsedData) >= 1)

\* The two-record file's upload is stored with record_count 2 while the session
\* without a user has issued nothing.
C26_Witness ==
    /\ user["s2"] = NoUser /\ parsedData["s2"] # <<>> /\ calls["s2"] = <<>>
    /\ Inserted("s1") /\ run["s1"].file = <<FileTwo>>
    /\ TheUpload("s1").record_count = 2
    /\ pc["s1"] = "rows"

\* The sum of the counts of a distribution over the keys ks.
RECURSIVE DistTotal(_, _)
DistTotal(dist, ks) ==
    IF ks = {} THEN 0
    ELSE LET k == CHOOSE t \in ks : TRUE
         IN  dist[k] + DistTotal(dist, ks \ {k})

\* C27: the counts of the stored typeDistribution add up to the stored record_count,
\* and each of the three averages is taken over at most record_count values.
C27_SummaryAgreesWithCount ==
    \A s \in Sessions :
        Inserted(s) =>
            LET up == TheUpload(s)
                dist == up.summary.typeDistribution
            IN  /\ DistTotal(dist, DOMAIN dist) = up.record_count
                /\ \A a \in NumericFields :
                      Len(NonNull(run[s].parsedData, a)) <= up.record_count

\* A stored upload of three rows of two types, whose flow rate average is taken over
\* two values.
C27_Witness ==
    /\ Inserted("s1") /\ pc["s1"] = "rows"
    /\ TheUpload("s1").record_count = 3
    /\ Cardinality(DOMAIN TheUpload("s1").summary.typeDistribution) = 2
    /\ Len(NonNull(run["s1"].parsedData, "flowrate")) = 2

\* C28: once every fetchData call has returned, in whatever order, the rows on display
\* are the rows of the upload that is selected.
C28_DisplayedRowsAreSelected ==
    (fetching = <<>> /\ selectedUpload # NoUpload) =>
        vizData = SelectEquipment("u1", selectedUpload)

\* The conditions of the two schemas on a form.
PassesSignIn(form) == IsEmail(form.email) /\ Len(form.password) >= 6
PassesSignUp(form) ==
    /\ Len(form.fullName) >= 2 /\ Len(form.fullName) <= 100
    /\ PassesSignIn(form)
    /\ form.confirmPassword = form.password

\* C30: handleSubmit calls signUp only in sign-up mode with a form that passes
\* signUpSchema and signIn only in sign-in mode with a form that passes signInSchema,
\* each with the form's values; a form that fails the schema of the mode gives no call
\* and at least one field error; and loading is false whenever no handleSubmit is
\* under way.
C30_CallsOnlyWithValidForm ==
    [][/\ authCalls' # authCalls =>
             /\ authCalls' = Append(authCalls, authCalls'[Len(authCalls')])
             /\ IF isSignUp
                THEN /\ PassesSignUp(formData)
                     /\ authCalls'[Len(authCalls')] =
                           <<"signUp", formData.email, formData.password, formData.fullName>>
                ELSE /\ PassesSignIn(formData)
                     /\ authCalls'[Len(authCalls')] =
                           <<"signIn", formData.email, formData.password>>
       /\ (HandleSubmit /\ ~(IF isSignUp THEN PassesSignUp(formData)
                                        ELSE PassesSignIn(formData))) =>
             /\ authCalls' = authCalls
             /\ \E f \in AuthFields : errors'[f] # ""
             /\ ~loading'
       /\ authPc' \in {"idle", "done"} => ~loading'
       /\ authPc' \in {"signUp", "signIn"} => loading'
      ]_vars

\* A signUp call was issued with a valid form and returned an error; the next submit,
\* with another confirmation, called nothing and set the field's error.
C30_Witness ==
    /\ isSignUp /\ authPc = "idle" /\ ~loading
    /\ authCalls = << <<"signUp", "a@b.co", "123456", "Al">> >>
    /\ "error.message" \in authToasts
    /\ formData.confirmPassword = "654321"
    /\ errors.confirmPassword = "Passwords don't match"

====
